---- MODULE Spec2Model ----
(***************************************************************************)
(* Model of src/app/src/app.py: a Flask service run with threaded=True.    *)
(* Every request is handled on a thread of its own, so a request and its   *)
(* thread are one index.  The handlers that touch the database are split   *)
(* at their blocking database calls (connect, the cursor/execute/fetch     *)
(* round trip, close) so that the steps of concurrent requests interleave; *)
(* the handlers without a database call are atomic.                        *)
(* The database, psutil and the clients are the environment: their         *)
(* behaviour is chosen nondeterministically from small sets.               *)
(*                                                                         *)
(* What is left out, and why:                                              *)
(*  - the clock: no handler branches on datetime.utcnow(), so every        *)
(*    reading is the one text utcnow;                                      *)
(*  - internal_error (lines 213-221): Flask calls it for an exception that *)
(*    leaves a view function; root and api_info raise nothing and the      *)
(*    other views catch Exception themselves, so nothing reaches it;       *)
(*  - the environment variables other than ENVIRONMENT, and logging.       *)
(*                                                                         *)
(* test_db_connection catches every Exception raised inside its try block, *)
(* so the except branches of health_check and api_status run only for an   *)
(* exception that block does not see (one raised by the call before the    *)
(* block is entered, or by a probe substituted in a test).  The action     *)
(* ProbeCallRaises is that event, an environment choice like the           *)
(* database's.                                                             *)
(***************************************************************************)
EXTENDS Integers, Sequences, FiniteSets, TLC

(* ------------------------------ bounds -------------------------------- *)
\* number of requests the clients send, each served on its own thread
MaxRequests == 2

Threads == 1..MaxRequests

(* ------------------------- values of the program ---------------------- *)
\* Python None, where the value is otherwise a string
PyNone == "None"
\* get_db_connection() returned None (connection ids start at 1)
NoConn == 0
\* cur.fetchone() returned None
NoRow == <<>>
\* SQL NULL in a timestamp column (datetimes are clock ticks >= 0)
NullDatetime == -1
\* the probe has not returned (yet)
NoRet == <<>>

Environment == "unknown"
AppVersion == "1.0.0"

ProbeRoutes == {"/healthz", "/api/status"}
DbRoutes == ProbeRoutes \cup {"/api/db/test"}

\* what the database can put in the version column, SQL NULL included
Versions == {"PostgreSQL 15.4", PyNone}
\* what the database can put in the current_timestamp column
DbTimestamps == {7, NullDatetime}
\* text of the exception raised by conn.cursor(), cur.execute(), cur.fetchone()
CursorError == "cursor: connection already closed"
ExecuteError == "execute: server closed the connection unexpectedly"
FetchError == "fetchone: no results to fetch"
QueryErrors == {CursorError, ExecuteError, FetchError}
\* text of the TypeError of result[0] when result is None
SubscriptError == "'NoneType' object is not subscriptable"
\* text of an exception escaping the call of the probe
ProbeCallError == "probe raised"
\* text of an exception raised by psutil while collecting
CollectError == "psutil: access denied"
\* (cpu, memory, disk) percentages psutil can report
Samples == {<<0, 50, 100>>, <<100, 50, 0>>}

\* datetime.isoformat(): naive ISO-8601 text, no zone suffix
isoformat(dt) == "2024-01-01T00:00:0" \o ToString(dt)

\* datetime.utcnow().isoformat(): the text of the clock's reading
utcnow == isoformat(3)

\* every text isoformat() can produce here
IsoTexts == {isoformat(d) : d \in 0..9}

VARIABLES psutil_installed, pc, route, conn, result, ret, fault, dbEvent,
          response, conns

\* the local variables of a handler invocation
locals == <<route, conn, result, ret, fault, dbEvent>>

vars == <<psutil_installed, pc, locals, response, conns>>

\* a request not answered yet has no response
NoResponse == <<0, <<>>>>

Init ==
    /\ psutil_installed \in BOOLEAN
    /\ pc = [t \in Threads |-> "idle"]
    /\ route = [t \in Threads |-> PyNone]
    /\ conn = [t \in Threads |-> NoConn]
    /\ result = [t \in Threads |-> NoRow]
    /\ ret = [t \in Threads |-> NoRet]
    /\ fault = [t \in Threads |-> PyNone]
    /\ dbEvent = [t \in Threads |-> "none"]
    /\ response = [t \in Threads |-> NoResponse]
    /\ conns = <<>>

(* ------------------- response builders (pure functions) --------------- *)
\* A JSON object (a Python dict) is the sequence of its <<key, value>> pairs,
\* in the order the code writes them.
Has(obj, k) == \E i \in 1..Len(obj) : obj[i][1] = k
Get(obj, k) == obj[CHOOSE i \in 1..Len(obj) : obj[i][1] = k][2]
Keys(obj) == [i \in 1..Len(obj) |-> obj[i][1]]

\* return jsonify(body), code
Response(code, body) == <<code, body>>
Code(resp) == resp[1]
Body(resp) == resp[2]

\* test_db_connection that forgets the fetched row
TestDbReturnNoRow(version) == <<TRUE, "Unknown">>

\* test_db_connection, line 53: the value returned on the success path
TestDbReturn(version) ==
    <<TRUE, IF version # NoRow THEN version[1] ELSE "Unknown">>

\* health_check that always answers 200
HealthCheckTryAlways200(db_healthy, db_info, ts) ==
    Response(200,
             << <<"status", IF db_healthy THEN "healthy" ELSE "unhealthy">>,
                <<"timestamp", ts>>,
                <<"environment", Environment>>,
                <<"database", << <<"connected", db_healthy>>,
                                 <<"info", db_info>> >> >>,
                <<"version", AppVersion>> >>)

\* health_check, lines 64-79: the try branch
HealthCheckTry(db_healthy, db_info, ts) ==
    Response(IF db_healthy THEN 200 ELSE 503,
             << <<"status", IF db_healthy THEN "healthy" ELSE "unhealthy">>,
                <<"timestamp", ts>>,
                <<"environment", Environment>>,
                <<"database", << <<"connected", db_healthy>>,
                                 <<"info", db_info>> >> >>,
                <<"version", AppVersion>> >>)

\* health_check whose except branch answers like api_status's
HealthCheckExcept500(e, ts) ==
    Response(500, << <<"status", "error">>, <<"timestamp", ts>>,
                     <<"error", e>> >>)

\* health_check, lines 81-87: the except branch
HealthCheckExcept(e, ts) ==
    Response(503, << <<"status", "unhealthy">>, <<"timestamp", ts>>,
                     <<"error", e>> >>)

\* root, lines 92-103
RootResponse(ts) ==
    Response(200,
             << <<"message", "AWS Cloud Infrastructure Automation Demo">>,
                <<"description",
                  "A production-grade AWS infrastructure using Terraform and CloudFormation">>,
                <<"timestamp", ts>>,
                <<"environment", Environment>>,
                <<"version", AppVersion>>,
                <<"endpoints", << <<"health", "/healthz">>,
                                  <<"status", "/api/status">>,
                                  <<"info", "/api/info">> >> >> >>)

\* api_status that answers 503 when degraded, as health_check does
ApiStatusTry503(db_healthy, ts) ==
    Response(IF db_healthy THEN 200 ELSE 503,
             << <<"status", IF db_healthy THEN "operational" ELSE "degraded">>,
                <<"timestamp", ts>>,
                <<"environment", Environment>>,
                <<"database", IF db_healthy THEN "connected"
                                            ELSE "disconnected">>,
                <<"uptime", "running">> >>)

\* api_status, lines 109-117: the try branch (jsonify alone: status 200)
ApiStatusTry(db_healthy, ts) ==
    Response(200,
             << <<"status", IF db_healthy THEN "operational" ELSE "degraded">>,
                <<"timestamp", ts>>,
                <<"environment", Environment>>,
                <<"database", IF db_healthy THEN "connected"
                                            ELSE "disconnected">>,
                <<"uptime", "running">> >>)

\* api_status, lines 119-125: the except branch
ApiStatusExcept(e, ts) ==
    Response(500, << <<"status", "error">>, <<"timestamp", ts>>,
                     <<"error", e>> >>)

\* api_info, lines 130-138 (python_version left out: the interpreter's text)
ApiInfoResponse(ts) ==
    Response(200,
             << <<"application", "AWS Cloud Infrastructure Demo">>,
                <<"framework", "Flask">>,
                <<"environment", Environment>>,
                <<"database_host", "not_set">>,
                <<"database_name", "not_set">>,
                <<"timestamp", ts>> >>)

\* db_test, lines 152-158: the row was fetched
DbTestSuccess(row) ==
    Response(200,
             << <<"status", "success">>,
                <<"database", "connected">>,
                <<"timestamp", IF row[1] # NullDatetime THEN isoformat(row[1])
                                                        ELSE PyNone>>,
                <<"version", IF row[2] # PyNone THEN row[2] ELSE "Unknown">>,
                <<"message", "Database connection and query successful">> >>)

\* db_test that drops the 500 of its no-connection answer
DbTestNoConnection200 ==
    Response(200,
             << <<"status", "error">>,
                <<"database", "disconnected">>,
                <<"message", "Could not establish database connection">> >>)

\* db_test, lines 159-164: get_db_connection() returned None
DbTestNoConnection ==
    Response(500,
             << <<"status", "error">>,
                <<"database", "disconnected">>,
                <<"message", "Could not establish database connection">> >>)

\* db_test, lines 166-172: the except branch
DbTestExcept(e) ==
    Response(500, << <<"status", "error">>, <<"database", "error">>,
                     <<"message", e>> >>)

\* metrics, lines 181-189: psutil imported and the collection succeeded
MetricsTry(cpu, mem, disk, ts) ==
    Response(200,
             << <<"timestamp", ts>>,
                <<"system", << <<"cpu_percent", cpu>>,
                               <<"memory_percent", mem>>,
                               <<"disk_percent", disk>> >> >>,
                <<"environment", Environment>> >>)

\* metrics that treats the missing psutil as an error
MetricsImportError500(ts) ==
    Response(500,
             << <<"timestamp", ts>>,
                <<"message", "psutil not available for system metrics">>,
                <<"environment", Environment>> >>)

\* metrics, lines 191-196: import psutil raised ImportError
MetricsImportError(ts) ==
    Response(200,
             << <<"timestamp", ts>>,
                <<"message", "psutil not available for system metrics">>,
                <<"environment", Environment>> >>)

\* metrics, lines 197-202: any other exception
MetricsExcept(e, ts) ==
    Response(500, << <<"timestamp", ts>>, <<"error", e>> >>)

\* not_found, lines 204-211
NotFoundResponse(ts) ==
    Response(404,
             << <<"error", "Not Found">>,
                <<"message", "The requested resource was not found">>,
                <<"timestamp", ts>> >>)

(* ------------------------------ handlers ------------------------------ *)
\* health_check, lines 59-87: e is the exception caught (PyNone: none), and
\* probe the pair test_db_connection() returned
health_check(e, probe, ts) ==
    IF e # PyNone THEN HealthCheckExcept(e, ts)
    ELSE HealthCheckTry(probe[1], probe[2], ts)

\* api_status, lines 105-125
api_status(e, probe, ts) ==
    IF e # PyNone THEN ApiStatusExcept(e, ts)
    ELSE ApiStatusTry(probe[1], ts)

\* db_test, lines 140-172: c is what get_db_connection() returned
db_test(e, c, row) ==
    IF e # PyNone THEN DbTestExcept(e)
    ELSE IF c = NoConn THEN DbTestNoConnection
    ELSE DbTestSuccess(row)

\* the view function Flask runs for a database route
View(r, e, c, probe, row) ==
    CASE r = "/healthz" -> health_check(e, probe, utcnow)
      [] r = "/api/status" -> api_status(e, probe, utcnow)
      [] r = "/api/db/test" -> db_test(e, c, row)

(* ----------------------------- bookkeeping ---------------------------- *)
\* the requests that have been answered
Answered == {t \in Threads : pc[t] = "done"}

\* a request has already been answered from an except branch
FaultAnswered == \E u \in Answered : fault[u] # PyNone

\* the handler of t returns: e, c, probe and row are its locals at that point
Finish(t, e, c, probe, row) ==
    /\ fault' = [fault EXCEPT ![t] = e]
    /\ ret' = [ret EXCEPT ![t] = probe]
    /\ result' = [result EXCEPT ![t] = row]
    /\ response' = [response EXCEPT ![t] = View(route[t], e, c, probe, row)]
    /\ pc' = [pc EXCEPT ![t] = "done"]

\* a handler without a database call runs from request to response
Atomic(t, r, e, resp) ==
    /\ pc[t] = "idle"
    /\ pc' = [pc EXCEPT ![t] = "done"]
    /\ route' = [route EXCEPT ![t] = r]
    /\ fault' = [fault EXCEPT ![t] = e]
    /\ response' = [response EXCEPT ![t] = resp]
    /\ UNCHANGED <<psutil_installed, conn, result, ret, dbEvent, conns>>

(* ------------------------------- actions ------------------------------ *)
\* Flask dispatches a request for a database route to its handler
Dispatch(t) ==
    /\ pc[t] = "idle"
    /\ \E r \in DbRoutes :
          /\ route' = [route EXCEPT ![t] = r]
          /\ pc' = [pc EXCEPT ![t] = IF r \in ProbeRoutes THEN "call"
                                                          ELSE "connect"]
    /\ UNCHANGED <<psutil_installed, conn, result, ret, fault, dbEvent,
                   response, conns>>

\* the call test_db_connection() (lines 64, 109) raises instead of returning:
\* the handler's except branch answers
ProbeCallRaises(t) ==
    /\ pc[t] = "call"
    /\ Finish(t, ProbeCallError, conn[t], ret[t], result[t])
    /\ UNCHANGED <<psutil_installed, route, conn, dbEvent, conns>>

\* a connection taken from a pool of one
AllocConnPooled(cs) == 1

\* a connection is the pair of its state and of the request that opened it
ConnState(c) == conns[c][1]
ConnOwner(c) == conns[c][2]

\* psycopg2.connect() (line 31) creates a new connection object
AllocConn(cs) == Len(cs) + 1

\* get_db_connection, lines 28-41, and the test of its result (47, 145);
\* without a connection the probe returns (54) and the handler answers
get_db_connection(t) ==
    /\ pc[t] \in {"call", "connect"}
    /\ \E connected \in BOOLEAN :
          IF connected
          THEN /\ conns' = Append(conns, <<"open", t>>)
               /\ conn' = [conn EXCEPT ![t] = AllocConn(conns)]
               /\ pc' = [pc EXCEPT ![t] = "query"]
               /\ UNCHANGED <<ret, result, fault, response, dbEvent>>
          ELSE /\ dbEvent' = [dbEvent EXCEPT ![t] = "refused"]
               /\ Finish(t, PyNone, NoConn,
                         IF route[t] \in ProbeRoutes
                         THEN <<FALSE, "No connection">> ELSE NoRet,
                         result[t])
               /\ UNCHANGED <<conn, conns>>
    /\ UNCHANGED <<psutil_installed, route>>

\* rows the database can answer the handler's query with
Rows(r) ==
    IF r \in ProbeRoutes
    THEN {<<v>> : v \in Versions} \cup {NoRow}
    ELSE {<<ts, v>> : ts \in DbTimestamps, v \in Versions} \cup {NoRow}

\* an exception left the with block: no code closes the connection; the
\* runtime may or may not finalise the unreferenced object
Abandon(c, reclaimed) ==
    [conns EXCEPT ![c][1] = IF reclaimed THEN "closed" ELSE "open"]

\* with conn.cursor() as cur: cur.execute(...); cur.fetchone(), then
\* conn.close() (lines 49-53 and 146-150), or the except branch a statement
\* raises into (lines 55-57 and 166-172); then the handler answers
cursor_execute_fetch(t) ==
    /\ pc[t] = "query"
    /\ \/ \E row \in Rows(route[t]) :
             /\ dbEvent' = [dbEvent EXCEPT ![t] =
                              IF row = NoRow THEN "norow" ELSE "row"]
             /\ conns' = [conns EXCEPT ![conn[t]][1] = "closed"]
             /\ IF route[t] \in ProbeRoutes
                THEN Finish(t, PyNone, conn[t], TestDbReturn(row), row)
                ELSE Finish(t, IF row = NoRow THEN SubscriptError ELSE PyNone,
                            conn[t], NoRet, row)
       \/ \E e \in QueryErrors, reclaimed \in BOOLEAN :
             /\ dbEvent' = [dbEvent EXCEPT ![t] = "raised"]
             /\ conns' = Abandon(conn[t], reclaimed)
             /\ IF route[t] \in ProbeRoutes
                THEN Finish(t, PyNone, conn[t], <<FALSE, e>>, result[t])
                ELSE Finish(t, e, conn[t], NoRet, result[t])
    /\ UNCHANGED <<psutil_installed, route, conn>>

root(t) == Atomic(t, "/", PyNone, RootResponse(utcnow))

api_info(t) == Atomic(t, "/api/info", PyNone, ApiInfoResponse(utcnow))

not_found(t) ==
    Atomic(t, "/nonexistent-path", PyNone, NotFoundResponse(utcnow))

\* metrics, lines 174-202
metrics(t) ==
    IF ~psutil_installed
    THEN Atomic(t, "/api/metrics", PyNone, MetricsImportError(utcnow))
    ELSE \/ \E s \in Samples :
              Atomic(t, "/api/metrics", PyNone,
                     MetricsTry(s[1], s[2], s[3], utcnow))
         \/ Atomic(t, "/api/metrics", CollectError,
                   MetricsExcept(CollectError, utcnow))

\* everything the thread of one request can do
ThreadStep(t) ==
    \/ Dispatch(t)
    \/ ProbeCallRaises(t)
    \/ get_db_connection(t)
    \/ cursor_execute_fetch(t)
    \/ root(t)
    \/ api_info(t)
    \/ not_found(t)
    \/ metrics(t)

Next == \E t \in Threads : ThreadStep(t)

Spec == Init /\ [][Next]_vars

(* ------------------------------ properties ---------------------------- *)
\* the answered requests of a route
AnsweredOn(r) == {t \in Answered : route[t] = r}

\* the probe returned to the handler of t
Probed(t) == ret[t] # NoRet

\* the database served the request of t: it connected and the query ran
DbServed(t) == dbEvent[t] \in {"row", "norow"}

\* the database failed the request of t: no connection, or the query raised
DbFailed(t) == dbEvent[t] \in {"refused", "raised"}

\* C1: every /healthz response maps probe ok=true to 200, "healthy" and
\* database.connected = true, and ok=false (database unreachable or query
\* failed) to 503, "unhealthy" and database.connected = false; no /healthz
\* response pairs 200 with "unhealthy" or 503 with "healthy".
C1_HealthzMapping ==
    \A t \in AnsweredOn("/healthz") :
       /\ (Probed(t) /\ ret[t][1]) =>
             /\ Code(response[t]) = 200
             /\ Get(Body(response[t]), "status") = "healthy"
             /\ Get(Get(Body(response[t]), "database"), "connected") = TRUE
       /\ (Probed(t) /\ ~ret[t][1]) =>
             /\ Code(response[t]) = 503
             /\ Get(Body(response[t]), "status") = "unhealthy"
             /\ Get(Get(Body(response[t]), "database"), "connected") = FALSE
       /\ DbFailed(t) => (Probed(t) /\ ~ret[t][1])
       /\ DbServed(t) => (Probed(t) /\ ret[t][1])
       /\ ~(Code(response[t]) = 200 /\ Get(Body(response[t]), "status") = "unhealthy")
       /\ ~(Code(response[t]) = 503 /\ Get(Body(response[t]), "status") = "healthy")

\* both mappings of /healthz have been answered, the 503 after a failed query
C1_Witness ==
    \E t, u \in AnsweredOn("/healthz") :
       /\ Probed(t) /\ ret[t][1] /\ Code(response[t]) = 200
       /\ Probed(u) /\ ~ret[u][1] /\ dbEvent[u] = "raised"
       /\ Code(response[u]) = 503

\* C2 (as claimed): whenever the probe obtained a connection, that connection
\* is closed by the time the probe has returned, on the success path and on
\* the failure path alike.
C2_ProbeReleasesConnection ==
    \A t \in Threads :
       (route[t] \in ProbeRoutes /\ Probed(t) /\ conn[t] # NoConn)
          => ConnState(conn[t]) = "closed"

\* C3 (as claimed): the body of every response, of every endpoint and for
\* every outcome, has a timestamp field holding a time string.
C3_TimestampAlways ==
    \A t \in Answered :
       /\ Has(Body(response[t]), "timestamp")
       /\ Get(Body(response[t]), "timestamp") \in IsoTexts

\* C4: every /api/status response whose probe returned is a 200, "degraded"
\* when ok=false and "operational" when ok=true; for the same unreachable
\* database /api/status answers 200 while /healthz answers 503.
C4_StatusAlways200 ==
    /\ \A t \in AnsweredOn("/api/status") :
          Probed(t) =>
             /\ Code(response[t]) = 200
             /\ Get(Body(response[t]), "status") =
                   IF ret[t][1] THEN "operational" ELSE "degraded"
             /\ DbFailed(t) => ~ret[t][1]
             /\ DbServed(t) => ret[t][1]
    /\ \A t \in AnsweredOn("/api/status"), u \in AnsweredOn("/healthz") :
          (dbEvent[t] = "refused" /\ dbEvent[u] = "refused")
             => (Code(response[t]) = 200 /\ Code(response[u]) = 503)

\* /api/status and /healthz have both been answered with the database
\* unreachable
C4_Witness ==
    \E t \in AnsweredOn("/api/status"), u \in AnsweredOn("/healthz") :
       /\ dbEvent[t] = "refused" /\ dbEvent[u] = "refused"
       /\ Get(Body(response[t]), "status") = "degraded"
       /\ Get(Body(response[u]), "status") = "unhealthy"

\* the reasons the probe gives for a failure
FailureDetails == {"No connection"} \cup QueryErrors

\* C5, the part that holds as claimed: every failure of the connection
\* attempt, of the cursor, of the query or of the fetch makes the probe return
\* (False, detail) with a reason as detail, and nothing is raised into the
\* handler; the probe returns True only after the connection was opened and
\* the query completed.
C5_FailuresReturned ==
    \A t \in Threads :
       (route[t] \in ProbeRoutes /\ pc[t] = "done") =>
          /\ DbFailed(t) =>
                /\ fault[t] = PyNone
                /\ Probed(t)
                /\ ret[t][1] = FALSE
                /\ ret[t][2] \in FailureDetails
          /\ (Probed(t) /\ ret[t][1]) => (conn[t] # NoConn /\ DbServed(t))

\* C5 (as claimed): as C5_FailuresReturned, and the detail of every
\* (True, detail) is the version string the database returned.
C5_DetailIsVersion ==
    /\ C5_FailuresReturned
    /\ \A t \in Threads :
          (route[t] \in ProbeRoutes /\ Probed(t) /\ ret[t][1]) =>
             (result[t] # NoRow /\ ret[t][2] = result[t][1])

\* C5 (amended): as C5_FailuresReturned, and the detail of every
\* (True, detail) is the version column of the fetched row, or "Unknown"
\* when the fetch returned no row.
C5_DetailIsVersionOrUnknown ==
    /\ C5_FailuresReturned
    /\ \A t \in Threads :
          (route[t] \in ProbeRoutes /\ Probed(t) /\ ret[t][1]) =>
             ret[t][2] = IF result[t] = NoRow THEN "Unknown" ELSE result[t][1]

\* the probe has returned True with a fetched version, True without a row,
\* and False after a failed query
C5_Witness ==
    \E t, u \in Threads :
       /\ route[t] \in ProbeRoutes /\ Probed(t) /\ ret[t][1]
       /\ result[t] = NoRow /\ ret[t][2] = "Unknown"
       /\ route[u] \in ProbeRoutes /\ Probed(u) /\ ~ret[u][1]
       /\ dbEvent[u] = "raised"

\* the three outcomes of /api/db/test, without what the 200 carries
DbTestConnectedOk(t) == conn[t] # NoConn /\ dbEvent[t] = "row"
DbTestNoConn(t) == conn[t] = NoConn
DbTestFaulted(t) == conn[t] # NoConn /\ fault[t] # PyNone

\* C6, the part that holds as claimed: exactly one of the three outcomes
\* occurs, with its HTTP status, and no failure of the database yields a 200.
C6_Outcomes ==
    \A t \in AnsweredOn("/api/db/test") :
       /\ DbTestConnectedOk(t) => Code(response[t]) = 200
       /\ DbTestNoConn(t) =>
             (Code(response[t]) = 500 /\ Get(Body(response[t]), "status") = "error")
       /\ DbTestFaulted(t) => Code(response[t]) = 500
       /\ \/ DbTestConnectedOk(t) /\ ~DbTestNoConn(t) /\ ~DbTestFaulted(t)
          \/ ~DbTestConnectedOk(t) /\ DbTestNoConn(t) /\ ~DbTestFaulted(t)
          \/ ~DbTestConnectedOk(t) /\ ~DbTestNoConn(t) /\ DbTestFaulted(t)
       /\ Code(response[t]) = 200 => dbEvent[t] = "row"

\* the JSON text of a timestamp / version column the database returned
JsonTimestamp(ts) == IF ts = NullDatetime THEN PyNone ELSE isoformat(ts)

\* C6 (as claimed): as C6_Outcomes, and the 200 echoes the timestamp and the
\* version the database returned.
C6_EchoesRow ==
    /\ C6_Outcomes
    /\ \A t \in AnsweredOn("/api/db/test") :
          Code(response[t]) = 200 =>
             /\ Get(Body(response[t]), "timestamp") = JsonTimestamp(result[t][1])
             /\ Get(Body(response[t]), "version") = result[t][2]

\* C6 (amended): as C6_Outcomes, and the 200 carries the timestamp the
\* database returned and the version it returned, or "Unknown" in place of a
\* null version.
C6_EchoesRowOrUnknown ==
    /\ C6_Outcomes
    /\ \A t \in AnsweredOn("/api/db/test") :
          Code(response[t]) = 200 =>
             /\ Get(Body(response[t]), "timestamp") = JsonTimestamp(result[t][1])
             /\ Get(Body(response[t]), "version") =
                   IF result[t][2] = PyNone THEN "Unknown" ELSE result[t][2]

\* /api/db/test has answered 200 for a row with a null version and 500 for
\* a refused connection
C6_Witness ==
    \E t, u \in AnsweredOn("/api/db/test") :
       /\ Code(response[t]) = 200 /\ result[t][2] = PyNone
       /\ Get(Body(response[t]), "version") = "Unknown"
       /\ DbTestNoConn(u) /\ Code(response[u]) = 500

\* C7: concurrent requests do not interfere: the requests in flight hold
\* distinct connections, each its own; the response of a /healthz request
\* follows from what the database did on that request alone; and a request
\* that is not answered yet can take its next step whatever the state of
\* the others.
C7_NoInterference ==
    /\ \A t \in Threads :
          conn[t] # NoConn =>
             /\ conn[t] \in 1..Len(conns)
             /\ ConnOwner(conn[t]) = t
             /\ \A u \in Threads \ {t} : conn[u] # conn[t]
    /\ \A t \in AnsweredOn("/healthz") :
          fault[t] = PyNone =>
             /\ Get(Get(Body(response[t]), "database"), "connected") = DbServed(t)
             /\ Code(response[t]) = IF DbServed(t) THEN 200 ELSE 503
             /\ Get(Body(response[t]), "status") =
                   IF DbServed(t) THEN "healthy" ELSE "unhealthy"
    /\ \A t \in Threads : pc[t] # "done" => ENABLED ThreadStep(t)

\* a /healthz request has been answered 200 on its own connection while
\* another, dispatched and connected before it was answered, still waits
\* for the database
C7_Witness ==
    \E t, u \in Threads :
       /\ t # u
       /\ route[t] = "/healthz" /\ pc[t] = "done" /\ Code(response[t]) = 200
       /\ route[u] = "/healthz" /\ pc[u] = "query"
       /\ conn[u] # NoConn /\ conn[t] # NoConn /\ conn[u] < conn[t]

\* no request is being served
Quiescent == \A t \in Threads : pc[t] \in {"idle", "done"}

\* C8 (as claimed): once every request has been answered no connection a
\* request opened remains open, and no connection is used by two requests.
C8_NoOpenConnectionLeft ==
    /\ Quiescent => \A c \in 1..Len(conns) : ConnState(c) = "closed"
    /\ \A t, u \in Threads :
          (t # u /\ conn[t] # NoConn) => conn[t] # conn[u]

\* C9: /api/metrics answers 200 with a message when psutil is unavailable,
\* 200 with the cpu, memory and disk percentages when the collection
\* succeeds, and 500 only when the collection raised.
C9_MetricsUnavailableIs200 ==
    \A t \in AnsweredOn("/api/metrics") :
       /\ ~psutil_installed =>
             /\ Code(response[t]) = 200
             /\ Has(Body(response[t]), "message")
             /\ Get(Body(response[t]), "message") =
                   "psutil not available for system metrics"
       /\ (psutil_installed /\ fault[t] = PyNone) =>
             /\ Code(response[t]) = 200
             /\ Keys(Get(Body(response[t]), "system")) =
                   <<"cpu_percent", "memory_percent", "disk_percent">>
             /\ <<Get(Get(Body(response[t]), "system"), "cpu_percent"),
                  Get(Get(Body(response[t]), "system"), "memory_percent"),
                  Get(Get(Body(response[t]), "system"), "disk_percent")>> \in Samples
       /\ Code(response[t]) = 500 => (psutil_installed /\ fault[t] # PyNone)
       /\ Code(response[t]) \in {200, 500}

\* /api/metrics has been answered without psutil
C9_Witness ==
    \E t \in AnsweredOn("/api/metrics") :
       ~psutil_installed /\ Code(response[t]) = 200

\* C10: a fault raised by the call of the probe is answered by the route:
\* /healthz with 503, "unhealthy" and the fault's text in an error field,
\* /api/status with 500 and "error"; these bodies have an error field and no
\* database field, the ordinary ok=false bodies a database field and no
\* error field; and after such an answer every other request can still take
\* its next step.
C10_FaultAnsweredPerRoute ==
    /\ \A t \in AnsweredOn("/healthz") :
          IF fault[t] # PyNone
          THEN /\ Code(response[t]) = 503
               /\ Get(Body(response[t]), "status") = "unhealthy"
               /\ Has(Body(response[t]), "error")
               /\ Get(Body(response[t]), "error") = fault[t]
               /\ ~Has(Body(response[t]), "database")
          ELSE /\ Has(Body(response[t]), "database")
               /\ ~Has(Body(response[t]), "error")
    /\ \A t \in AnsweredOn("/api/status") :
          IF fault[t] # PyNone
          THEN /\ Code(response[t]) = 500
               /\ Get(Body(response[t]), "status") = "error"
               /\ Has(Body(response[t]), "error")
               /\ Get(Body(response[t]), "error") = fault[t]
               /\ ~Has(Body(response[t]), "database")
          ELSE /\ Has(Body(response[t]), "database")
               /\ ~Has(Body(response[t]), "error")
    /\ FaultAnswered => \A u \in Threads : pc[u] # "done" => ENABLED ThreadStep(u)

\* /healthz answered a fault of the probe's call with 503, and another
\* request went through its probe and got its 200
C10_Witness ==
    \E t, u \in Threads :
       /\ route[t] = "/healthz" /\ pc[t] = "done"
       /\ fault[t] = ProbeCallError /\ Code(response[t]) = 503
       /\ route[u] \in ProbeRoutes /\ pc[u] = "done"
       /\ Probed(u) /\ ret[u][1] /\ Code(response[u]) = 200

====
